---------------------------- MODULE Spec2Model ----------------------------
(***************************************************************************)
(* A model of the BMS prototype: the severity classifier                   *)
(* (SafetyManager::evaluate), the coulomb counter (BMS::updateSoC), the    *)
(* cycle counter (BMS::updateSoH) and the orchestrating tick (BMS::update).*)
(*                                                                         *)
(* The program computes in float.  The model computes in integers, every   *)
(* quantity in a fixed unit in which all thresholds of inc/Constants.h are *)
(* whole numbers, so that a comparison against a threshold is decided      *)
(* exactly as the float comparison decides it:                             *)
(*   voltage          0.01 V           (4.20 V   = 420)                    *)
(*   temperature      1 C                                                  *)
(*   current          0.05 A           (0.05 A   = 1, 2.0 A = 40)          *)
(*   time             1 s                                                  *)
(*   charge           1/3600 mAh       (3000 mAh = 10800000)               *)
(*   state of charge  1/108000 %       (100 %    = 10800000)               *)
(*   charge cycles    0.5 cycle                                            *)
(*   state of health  0.05 %           (100 %    = 2000)                   *)
(* Float rounding and non-finite values are outside this arithmetic.       *)
(***************************************************************************)
EXTENDS Integers, FiniteSets, Sequences, TLC

\* ------------------------------------------------------------------------
\* inc/BMS_States.h: enum class SystemState, in declaration order
NORMAL == 0
WARNING == 1
CRITICAL == 2
FAULT == 3

SystemState == {NORMAL, WARNING, CRITICAL, FAULT}

\* ------------------------------------------------------------------------
\* inc/Constants.h
NUM_CELLS == 4

\* charge, 1/3600 mAh
NOMINAL_CAPACITY_MAH == 10800000
\* CHARGE_EFFICIENCY = 0.98 = 49/50
CHARGE_EFFICIENCY_NUM == 49
CHARGE_EFFICIENCY_DEN == 50
\* state of charge, 1/108000 %
SOC_FULL_THRESHOLD_PERCENT == 10584000
SOC_EMPTY_THRESHOLD_PERCENT == 1080000

\* voltage, 0.01 V
MIN_VOLTAGE_NORMAL == 300
MIN_VOLTAGE_WARNING == 280
MIN_VOLTAGE_CRITICAL == 250
MIN_VOLTAGE_FAULT == 100
MAX_VOLTAGE_NORMAL == 420
MAX_VOLTAGE_WARNING == 430
MAX_VOLTAGE_CRITICAL == 440
MAX_VOLTAGE_FAULT == 480

\* temperature, 1 C
MIN_TEMP_NORMAL == 0
MIN_TEMP_WARNING == -5
MIN_TEMP_CRITICAL == -10
MIN_TEMP_FAULT == -20
MAX_TEMP_NORMAL == 45
MAX_TEMP_WARNING == 50
MAX_TEMP_CRITICAL == 60
MAX_TEMP_FAULT == 70

\* current, 0.05 A
IDLE_CURRENT_THRESHOLD_A == 1
MAX_DISCHARGE_CURRENT_NORMAL_A == 200
MAX_DISCHARGE_CURRENT_WARNING_A == 300
MAX_DISCHARGE_CURRENT_CRITICAL_A == 400
MAX_CHARGE_CURRENT_NORMAL_A == 40
MAX_CHARGE_CURRENT_WARNING_A == 60
MAX_CHARGE_CURRENT_CRITICAL_A == 80

\* state of health, 0.05 %
SOH_THRESHOLD_WARNING == 1600
SOH_THRESHOLD_CRITICAL == 1200

\* ------------------------------------------------------------------------
\* Bounds of the model
\* ticks of BMS::update a behaviour of Spec takes
MaxTicks == 3
\* the classifier's inputs are sampled within Margin units of every threshold
Margin == 1

\* ------------------------------------------------------------------------
VARIABLES
    m_cells,                  \* BMS::m_cells: slot -> [id, voltage, temperature]
    m_packCurrent,            \* BMS::m_packCurrent
    m_accumulatedCharge_mAh,  \* BMS::m_accumulatedCharge_mAh
    m_stateOfCharge_percent,  \* BMS::m_stateOfCharge_percent
    m_stateOfHealth_percent,  \* BMS::m_stateOfHealth_percent
    m_chargeCycles,           \* BMS::m_chargeCycles
    m_wasFull,                \* BMS::m_wasFull
    m_wasEmpty,               \* BMS::m_wasEmpty
    m_isChargingFlag,         \* BMS::m_isChargingFlag
    m_currentState,           \* SafetyManager::m_currentState
    transition,               \* the "BMS STATE TRANSITION" line of the last evaluate: <<>> or <<old, new>>
    faultHandled,             \* whether the last update called handleFault
    ticks,                    \* updates the behaviour has taken
    pc,                       \* "idle" between updates; "call"/"done" around a lone evaluate
    lastDeltaTime,            \* deltaTime_s of the last update
    lastChargeChange,         \* charge_change_mAh of the last updateSoC
    seenFull,                 \* history: some update left the state of charge >= 98 %
    seenEmpty                 \* history: some update left the state of charge <= 10 %

vars == <<m_cells, m_packCurrent, m_accumulatedCharge_mAh, m_stateOfCharge_percent,
          m_stateOfHealth_percent, m_chargeCycles, m_wasFull, m_wasEmpty,
          m_isChargingFlag, m_currentState, transition, faultHandled, ticks, pc,
          lastDeltaTime, lastChargeChange, seenFull, seenEmpty>>

CellIds == 0..(NUM_CELLS - 1)

\* BatteryCell(id, voltage, temperature)
BatteryCell(i, v, t) == [id |-> i, voltage |-> v, temperature |-> t]

\* ------------------------------------------------------------------------
\* The non-finite values of a float reading.  The infinities lie beyond every
\* limit; NaN is a value of its own with which every comparison is false.
PosInf == 1000000
NegInf == -1000000
NaN == 2000000

\* x can be compared: operator<, <=, >, >= of a float are false when it is NaN
Ordered(x) == x # NaN

\* ------------------------------------------------------------------------
\* SafetyManager: the band predicates

isVoltageNormal(voltage) ==
    Ordered(voltage) /\ voltage >= MIN_VOLTAGE_NORMAL /\ voltage <= MAX_VOLTAGE_NORMAL

\* isVoltageWarning with the upper bound of the band left out of it
isVoltageWarning_ExclusiveMax(voltage) ==
    /\ Ordered(voltage)
    /\ \/ (voltage >= MIN_VOLTAGE_WARNING /\ voltage < MIN_VOLTAGE_NORMAL)
       \/ (voltage > MAX_VOLTAGE_NORMAL /\ voltage < MAX_VOLTAGE_WARNING)

isVoltageWarning(voltage) ==
    /\ Ordered(voltage)
    /\ \/ (voltage >= MIN_VOLTAGE_WARNING /\ voltage < MIN_VOLTAGE_NORMAL)
       \/ (voltage > MAX_VOLTAGE_NORMAL /\ voltage <= MAX_VOLTAGE_WARNING)

\* isVoltageCritical reaching up to MIN_VOLTAGE_WARNING itself
isVoltageCritical_UpToWarning(voltage) ==
    /\ Ordered(voltage)
    /\ \/ (voltage >= MIN_VOLTAGE_CRITICAL /\ voltage <= MIN_VOLTAGE_WARNING)
       \/ (voltage > MAX_VOLTAGE_WARNING /\ voltage <= MAX_VOLTAGE_CRITICAL)

isVoltageCritical(voltage) ==
    /\ Ordered(voltage)
    /\ \/ (voltage >= MIN_VOLTAGE_CRITICAL /\ voltage < MIN_VOLTAGE_WARNING)
       \/ (voltage > MAX_VOLTAGE_WARNING /\ voltage <= MAX_VOLTAGE_CRITICAL)

isVoltageFault(voltage) ==
    Ordered(voltage) /\ (voltage < MIN_VOLTAGE_FAULT \/ voltage > MAX_VOLTAGE_FAULT)

isTemperatureNormal(temperature) ==
    Ordered(temperature) /\ temperature >= MIN_TEMP_NORMAL /\ temperature <= MAX_TEMP_NORMAL

isTemperatureWarning(temperature) ==
    /\ Ordered(temperature)
    /\ \/ (temperature >= MIN_TEMP_WARNING /\ temperature < MIN_TEMP_NORMAL)
       \/ (temperature > MAX_TEMP_NORMAL /\ temperature <= MAX_TEMP_WARNING)

isTemperatureCritical(temperature) ==
    /\ Ordered(temperature)
    /\ \/ (temperature >= MIN_TEMP_CRITICAL /\ temperature < MIN_TEMP_WARNING)
       \/ (temperature > MAX_TEMP_WARNING /\ temperature <= MAX_TEMP_CRITICAL)

isTemperatureFault(temperature) ==
    Ordered(temperature) /\ (temperature < MIN_TEMP_FAULT \/ temperature > MAX_TEMP_FAULT)

isCurrentNormal(current) ==
    IF current > IDLE_CURRENT_THRESHOLD_A
    THEN current <= MAX_CHARGE_CURRENT_NORMAL_A
    ELSE IF current < -IDLE_CURRENT_THRESHOLD_A
         THEN current >= -MAX_DISCHARGE_CURRENT_NORMAL_A
         ELSE TRUE

\* isCurrentWarning ending, as isCurrentNormal does, with "return true" for an idle current
isCurrentWarning_IdleTrue(current) ==
    IF current > IDLE_CURRENT_THRESHOLD_A
    THEN current > MAX_CHARGE_CURRENT_NORMAL_A /\ current <= MAX_CHARGE_CURRENT_WARNING_A
    ELSE IF current < -IDLE_CURRENT_THRESHOLD_A
         THEN /\ current < -MAX_DISCHARGE_CURRENT_NORMAL_A
              /\ current >= -MAX_DISCHARGE_CURRENT_WARNING_A
         ELSE TRUE

isCurrentWarning(current) ==
    IF current > IDLE_CURRENT_THRESHOLD_A
    THEN current > MAX_CHARGE_CURRENT_NORMAL_A /\ current <= MAX_CHARGE_CURRENT_WARNING_A
    ELSE IF current < -IDLE_CURRENT_THRESHOLD_A
         THEN /\ current < -MAX_DISCHARGE_CURRENT_NORMAL_A
              /\ current >= -MAX_DISCHARGE_CURRENT_WARNING_A
         ELSE FALSE

isCurrentCritical(current) ==
    IF current > IDLE_CURRENT_THRESHOLD_A
    THEN current > MAX_CHARGE_CURRENT_WARNING_A /\ current <= MAX_CHARGE_CURRENT_CRITICAL_A
    ELSE IF current < -IDLE_CURRENT_THRESHOLD_A
         THEN /\ current < -MAX_DISCHARGE_CURRENT_WARNING_A
              /\ current >= -MAX_DISCHARGE_CURRENT_CRITICAL_A
         ELSE FALSE

isSoHNormal(soh) == soh >= SOH_THRESHOLD_WARNING

isSoHWarning(soh) == soh >= SOH_THRESHOLD_CRITICAL /\ soh < SOH_THRESHOLD_WARNING

\* isSoHCritical with <= for <
isSoHCritical_Inclusive(soh) == soh <= SOH_THRESHOLD_CRITICAL

isSoHCritical(soh) == soh < SOH_THRESHOLD_CRITICAL

\* ------------------------------------------------------------------------
\* SafetyManager::evaluate: the three passes over the inputs

\* the first loop leaving after its first cell, whatever that cell holds
FaultPass_FirstCellOnly(cells) ==
    IF isVoltageFault(cells[0].voltage) \/ isTemperatureFault(cells[0].temperature)
    THEN FAULT
    ELSE NORMAL

\* first loop: FAULT as soon as one cell is in a fault range
FaultPass(cells) ==
    IF \E i \in CellIds :
           isVoltageFault(cells[i].voltage) \/ isTemperatureFault(cells[i].temperature)
    THEN FAULT
    ELSE NORMAL

\* the critical pass proposing FAULT for a critical current or state of health
CriticalPass_RaisesFault(proposedState, cells, packCurrent, stateOfHealth_percent) ==
    IF proposedState # FAULT
    THEN IF isCurrentCritical(packCurrent) \/ isSoHCritical(stateOfHealth_percent)
         THEN FAULT
         ELSE IF \E i \in CellIds :
                     \/ isVoltageCritical(cells[i].voltage)
                     \/ isTemperatureCritical(cells[i].temperature)
              THEN CRITICAL
              ELSE proposedState
    ELSE proposedState

\* if (proposedState != FAULT) { ... CRITICAL ... }
CriticalPass(proposedState, cells, packCurrent, stateOfHealth_percent) ==
    IF proposedState # FAULT
    THEN IF isCurrentCritical(packCurrent) \/ isSoHCritical(stateOfHealth_percent)
         THEN CRITICAL
         ELSE IF \E i \in CellIds :
                     \/ isVoltageCritical(cells[i].voltage)
                     \/ isTemperatureCritical(cells[i].temperature)
              THEN CRITICAL
              ELSE proposedState
    ELSE proposedState

\* the warning pass guarded by "!= FAULT" as the critical pass is
WarningPass_Overwrites(proposedState, cells, packCurrent, stateOfHealth_percent) ==
    IF proposedState # FAULT
    THEN IF isCurrentWarning(packCurrent) \/ isSoHWarning(stateOfHealth_percent)
         THEN WARNING
         ELSE IF \E i \in CellIds :
                     \/ isVoltageWarning(cells[i].voltage)
                     \/ isTemperatureWarning(cells[i].temperature)
              THEN WARNING
              ELSE proposedState
    ELSE proposedState

\* if (proposedState == NORMAL) { ... WARNING ... }
WarningPass(proposedState, cells, packCurrent, stateOfHealth_percent) ==
    IF proposedState = NORMAL
    THEN IF isCurrentWarning(packCurrent) \/ isSoHWarning(stateOfHealth_percent)
         THEN WARNING
         ELSE IF \E i \in CellIds :
                     \/ isVoltageWarning(cells[i].voltage)
                     \/ isTemperatureWarning(cells[i].temperature)
              THEN WARNING
              ELSE proposedState
    ELSE proposedState

\* the value of proposedState when the passes are over
ProposedState(cells, packCurrent, stateOfHealth_percent) ==
    WarningPass(
        CriticalPass(FaultPass(cells), cells, packCurrent, stateOfHealth_percent),
        cells, packCurrent, stateOfHealth_percent)

\* evaluate that only ever raises the stored tier
evaluate_KeepsHigherTier(cells, packCurrent, stateOfHealth_percent) ==
    \E computed \in {ProposedState(cells, packCurrent, stateOfHealth_percent)} :
    \E proposedState \in {IF computed > m_currentState THEN computed ELSE m_currentState} :
        IF proposedState # m_currentState
        THEN /\ transition' = <<m_currentState, proposedState>>
             /\ m_currentState' = proposedState
        ELSE /\ transition' = <<>>
             /\ m_currentState' = m_currentState

\* evaluate that prints the transition line on every call
evaluate_NotifiesEveryCall(cells, packCurrent, stateOfHealth_percent) ==
    \E proposedState \in {ProposedState(cells, packCurrent, stateOfHealth_percent)} :
        /\ transition' = <<m_currentState, proposedState>>
        /\ m_currentState' = proposedState

\* evaluate that never leaves FAULT
evaluate_FaultLatches(cells, packCurrent, stateOfHealth_percent) ==
    \E proposedState \in {IF m_currentState = FAULT THEN FAULT
                          ELSE ProposedState(cells, packCurrent, stateOfHealth_percent)} :
        IF proposedState # m_currentState
        THEN /\ transition' = <<m_currentState, proposedState>>
             /\ m_currentState' = proposedState
        ELSE /\ transition' = <<>>
             /\ m_currentState' = m_currentState

\* evaluate as an action on m_currentState and the transition line it prints
evaluate(cells, packCurrent, stateOfHealth_percent) ==
    \E proposedState \in {ProposedState(cells, packCurrent, stateOfHealth_percent)} :
        IF proposedState # m_currentState
        THEN /\ transition' = <<m_currentState, proposedState>>
             /\ m_currentState' = proposedState
        ELSE /\ transition' = <<>>
             /\ m_currentState' = m_currentState

\* ------------------------------------------------------------------------
\* BMS::updateSoC, as functions of the fields it reads

\* float current_mA = m_packCurrent * 1000.0f   (0.05 A = 50 mA)
current_mA(packCurrent) == packCurrent * 50

\* the efficiency applied from the idle threshold on
charge_change_mAh_AtThreshold(packCurrent, deltaTime_s) ==
    LET raw == current_mA(packCurrent) * deltaTime_s
    IN  IF current_mA(packCurrent) >= IDLE_CURRENT_THRESHOLD_A * 50
        THEN (raw \div CHARGE_EFFICIENCY_DEN) * CHARGE_EFFICIENCY_NUM
        ELSE raw

\* a current inside the idle band counted as no current
charge_change_mAh_IdleIsZero(packCurrent, deltaTime_s) ==
    LET raw == current_mA(packCurrent) * deltaTime_s
    IN  IF current_mA(packCurrent) > IDLE_CURRENT_THRESHOLD_A * 50
        THEN (raw \div CHARGE_EFFICIENCY_DEN) * CHARGE_EFFICIENCY_NUM
        ELSE IF current_mA(packCurrent) >= -IDLE_CURRENT_THRESHOLD_A * 50 THEN 0
        ELSE raw

\* charge_change_mAh after the efficiency branch
charge_change_mAh(packCurrent, deltaTime_s) ==
    LET raw == current_mA(packCurrent) * deltaTime_s
    IN  IF current_mA(packCurrent) > IDLE_CURRENT_THRESHOLD_A * 50
        THEN (raw \div CHARGE_EFFICIENCY_DEN) * CHARGE_EFFICIENCY_NUM
        ELSE raw

\* the addition with the upper clamp only
AccumulatedChargeAfter_NoFloor(acc, packCurrent, deltaTime_s) ==
    LET sum == acc + charge_change_mAh(packCurrent, deltaTime_s)
    IN  IF sum > NOMINAL_CAPACITY_MAH THEN NOMINAL_CAPACITY_MAH ELSE sum

\* m_accumulatedCharge_mAh after the addition and the clamp
AccumulatedChargeAfter(acc, packCurrent, deltaTime_s) ==
    LET sum == acc + charge_change_mAh(packCurrent, deltaTime_s)
    IN  IF sum > NOMINAL_CAPACITY_MAH THEN NOMINAL_CAPACITY_MAH
        ELSE IF sum < 0 THEN 0
        ELSE sum

\* a state of charge kept in whole percents
StateOfChargeOf_WholePercent(acc) ==
    ((acc * 100) \div NOMINAL_CAPACITY_MAH) * 108000

\* (acc / NOMINAL_CAPACITY_MAH) * 100, in 1/108000 %, then the two clamps
StateOfChargeOf(acc) ==
    LET percent == (acc * 100) \div (NOMINAL_CAPACITY_MAH \div 108000)
        hi == IF percent > 100 * 108000 THEN 100 * 108000 ELSE percent
    IN  IF hi < 0 THEN 0 ELSE hi

\* ------------------------------------------------------------------------
\* BMS::updateSoH, as functions of the fields it reads

WasFullLatched(soc, wasFull) ==
    IF soc >= SOC_FULL_THRESHOLD_PERCENT THEN TRUE ELSE wasFull

WasEmptyLatched(soc, wasEmpty) ==
    IF soc <= SOC_EMPTY_THRESHOLD_PERCENT THEN TRUE ELSE wasEmpty

\* a count as soon as one latch is set
HalfCycleDetected_EitherLatch(soc, wasFull, wasEmpty) ==
    WasFullLatched(soc, wasFull) \/ WasEmptyLatched(soc, wasEmpty)

\* a count only when m_wasFull was latched by an earlier update
HalfCycleDetected_FullFirst(soc, wasFull, wasEmpty) ==
    wasFull /\ WasEmptyLatched(soc, wasEmpty)

\* the two latches never found set together
HalfCycleDetected_Never(soc, wasFull, wasEmpty) == FALSE

\* if (m_wasFull && m_wasEmpty)
HalfCycleDetected(soc, wasFull, wasEmpty) ==
    WasFullLatched(soc, wasFull) /\ WasEmptyLatched(soc, wasEmpty)

\* m_wasFull never cleared
WasFullAfter_NoReset(soc, wasFull, wasEmpty) == WasFullLatched(soc, wasFull)

\* m_wasFull when updateSoH returns: cleared with the half-cycle it counts
WasFullAfter(soc, wasFull, wasEmpty) ==
    IF HalfCycleDetected(soc, wasFull, wasEmpty) THEN FALSE ELSE WasFullLatched(soc, wasFull)

\* m_wasEmpty when updateSoH returns
WasEmptyAfter(soc, wasFull, wasEmpty) ==
    IF HalfCycleDetected(soc, wasFull, wasEmpty) THEN FALSE ELSE WasEmptyLatched(soc, wasEmpty)

\* a detected half-cycle taken off the count
ChargeCyclesAfter_Uncounts(chargeCycles, soc, wasFull, wasEmpty) ==
    IF HalfCycleDetected(soc, wasFull, wasEmpty) THEN chargeCycles - 1 ELSE chargeCycles

\* m_chargeCycles += 0.5f when both latches are set
ChargeCyclesAfter(chargeCycles, soc, wasFull, wasEmpty) ==
    IF HalfCycleDetected(soc, wasFull, wasEmpty) THEN chargeCycles + 1 ELSE chargeCycles

\* the subtraction with the upper clamp only
StateOfHealthOf_NoFloor(chargeCycles) ==
    LET raw == 2000 - chargeCycles
    IN  IF raw > 2000 THEN 2000 ELSE raw

\* 100.0f - m_chargeCycles * 0.1f, in 0.05 %, then the two clamps
StateOfHealthOf(chargeCycles) ==
    LET raw == 2000 - chargeCycles
        hi == IF raw > 2000 THEN 2000 ELSE raw
    IN  IF hi < 0 THEN 0 ELSE hi

\* ------------------------------------------------------------------------
\* SensorSimulator: sampled values of what readVoltage, readTemperature and
\* readCurrent return (the uniform ranges and the injected values)

NominalVoltage == 370
NominalTemperature == 25

\* readVoltage/readTemperature of one cell off its nominal value: SIM_VOLTAGE_MIN
\* (2.00 V) and the "extreme" injection MIN_VOLTAGE_FAULT - 0.1 (0.90 V)
SensorDeviations ==
    { <<200, NominalTemperature>>, <<90, NominalTemperature>> }

\* the slot that deviates: the last of m_cells
DeviatingCells == {NUM_CELLS - 1}

\* the packs a tick reads: every cell nominal, or one cell deviating
SensorPacks ==
    { [i \in CellIds |-> BatteryCell(i, NominalVoltage, NominalTemperature)] }
    \cup
    { [i \in CellIds |->
          IF i = k THEN BatteryCell(i, d[1], d[2])
                   ELSE BatteryCell(i, NominalVoltage, NominalTemperature)]
      : k \in DeviatingCells, d \in SensorDeviations }

\* readCurrent: 0, +0.05, -0.05, 2.5, 3.5 and the injected -50.0 A
SensorCurrents == {0, 1, -1, 50, 70, -1000}

\* deltaTime_s: the interval main passes (1 s), an hour, an hour backwards, ten hours
DeltaTimes == {1, 3600, -3600, 36000}

\* an idle current clears the flag
IsChargingAfter_IdleClears(packCurrent, isChargingFlag) ==
    packCurrent > IDLE_CURRENT_THRESHOLD_A

\* BMS::update, "Determine charging state": an idle current keeps the flag
IsChargingAfter(packCurrent, isChargingFlag) ==
    IF packCurrent > IDLE_CURRENT_THRESHOLD_A THEN TRUE
    ELSE IF packCurrent < -IDLE_CURRENT_THRESHOLD_A THEN FALSE
    ELSE isChargingFlag

\* ------------------------------------------------------------------------
\* a pack constructed empty
Init_StartsEmpty ==
    /\ m_cells = [i \in CellIds |-> BatteryCell(i, 0, 0)]
    /\ m_packCurrent = 0
    /\ m_accumulatedCharge_mAh = 0
    /\ m_stateOfCharge_percent = 0
    /\ m_stateOfHealth_percent = 2000
    /\ m_chargeCycles = 0
    /\ m_wasFull = FALSE
    /\ m_wasEmpty = FALSE
    /\ m_isChargingFlag = FALSE
    /\ m_currentState = NORMAL
    /\ transition = <<>>
    /\ faultHandled = FALSE
    /\ ticks = 0
    /\ pc = "idle"
    /\ lastDeltaTime = 0
    /\ lastChargeChange = 0
    /\ seenFull = FALSE
    /\ seenEmpty = FALSE

\* BMS::BMS and SafetyManager::SafetyManager
Init ==
    /\ m_cells = [i \in CellIds |-> BatteryCell(i, 0, 0)]
    /\ m_packCurrent = 0
    /\ m_accumulatedCharge_mAh = NOMINAL_CAPACITY_MAH \div 2
    /\ m_stateOfCharge_percent = 50 * 108000
    /\ m_stateOfHealth_percent = 2000
    /\ m_chargeCycles = 0
    /\ m_wasFull = FALSE
    /\ m_wasEmpty = FALSE
    /\ m_isChargingFlag = FALSE
    /\ m_currentState = NORMAL
    /\ transition = <<>>
    /\ faultHandled = FALSE
    /\ ticks = 0
    /\ pc = "idle"
    /\ lastDeltaTime = 0
    /\ lastChargeChange = 0
    /\ seenFull = FALSE
    /\ seenEmpty = FALSE

\* BMS::update with evaluate called ahead of the sensor reads and the estimators
update_EvaluatesStaleReadings(cells, packCurrent, deltaTime_s) ==
    \E acc \in {AccumulatedChargeAfter(m_accumulatedCharge_mAh, packCurrent, deltaTime_s)} :
    \E soc \in {StateOfChargeOf(acc)} :
    \E cycles \in {ChargeCyclesAfter(m_chargeCycles, soc, m_wasFull, m_wasEmpty)} :
    \E soh \in {StateOfHealthOf(cycles)} :
        \* 1. read the sensors; a cell keeps its id
        /\ m_cells' = [i \in CellIds |->
                          BatteryCell(m_cells[i].id, cells[i].voltage, cells[i].temperature)]
        /\ m_packCurrent' = packCurrent
        /\ m_isChargingFlag' = IsChargingAfter(packCurrent, m_isChargingFlag)
        \* 2. updateSoC, updateSoH
        /\ m_accumulatedCharge_mAh' = acc
        /\ m_stateOfCharge_percent' = soc
        /\ m_wasFull' = WasFullAfter(soc, m_wasFull, m_wasEmpty)
        /\ m_wasEmpty' = WasEmptyAfter(soc, m_wasFull, m_wasEmpty)
        /\ m_chargeCycles' = cycles
        /\ m_stateOfHealth_percent' = soh
        \* evaluate sees what the previous update stored
        /\ evaluate(m_cells, m_packCurrent, m_stateOfHealth_percent)
        /\ faultHandled' = (m_currentState' = FAULT)
        \* what the claims observe of the tick
        /\ lastDeltaTime' = deltaTime_s
        /\ lastChargeChange' = charge_change_mAh(packCurrent, deltaTime_s)
        /\ seenFull' = (seenFull \/ soc >= SOC_FULL_THRESHOLD_PERCENT)
        /\ seenEmpty' = (seenEmpty \/ soc <= SOC_EMPTY_THRESHOLD_PERCENT)

\* BMS::update calling handleFault only when FAULT is entered
update_FaultHandledOnEntry(cells, packCurrent, deltaTime_s) ==
    \E acc \in {AccumulatedChargeAfter(m_accumulatedCharge_mAh, packCurrent, deltaTime_s)} :
    \E soc \in {StateOfChargeOf(acc)} :
    \E cycles \in {ChargeCyclesAfter(m_chargeCycles, soc, m_wasFull, m_wasEmpty)} :
    \E soh \in {StateOfHealthOf(cycles)} :
        \* 1. read the sensors; a cell keeps its id
        /\ m_cells' = [i \in CellIds |->
                          BatteryCell(m_cells[i].id, cells[i].voltage, cells[i].temperature)]
        /\ m_packCurrent' = packCurrent
        /\ m_isChargingFlag' = IsChargingAfter(packCurrent, m_isChargingFlag)
        \* 2. updateSoC, updateSoH
        /\ m_accumulatedCharge_mAh' = acc
        /\ m_stateOfCharge_percent' = soc
        /\ m_wasFull' = WasFullAfter(soc, m_wasFull, m_wasEmpty)
        /\ m_wasEmpty' = WasEmptyAfter(soc, m_wasFull, m_wasEmpty)
        /\ m_chargeCycles' = cycles
        /\ m_stateOfHealth_percent' = soh
        \* 3. evaluate, 4. the switch on the state
        /\ evaluate(m_cells', packCurrent, soh)
        /\ faultHandled' = (m_currentState' = FAULT /\ m_currentState # FAULT)
        \* what the claims observe of the tick
        /\ lastDeltaTime' = deltaTime_s
        /\ lastChargeChange' = charge_change_mAh(packCurrent, deltaTime_s)
        /\ seenFull' = (seenFull \/ soc >= SOC_FULL_THRESHOLD_PERCENT)
        /\ seenEmpty' = (seenEmpty \/ soc <= SOC_EMPTY_THRESHOLD_PERCENT)

\* BMS::update with evaluate called ahead of updateSoH
update_EvaluatesBeforeHealth(cells, packCurrent, deltaTime_s) ==
    \E acc \in {AccumulatedChargeAfter(m_accumulatedCharge_mAh, packCurrent, deltaTime_s)} :
    \E soc \in {StateOfChargeOf(acc)} :
    \E cycles \in {ChargeCyclesAfter(m_chargeCycles, soc, m_wasFull, m_wasEmpty)} :
    \E soh \in {StateOfHealthOf(cycles)} :
        \* 1. read the sensors; a cell keeps its id
        /\ m_cells' = [i \in CellIds |->
                          BatteryCell(m_cells[i].id, cells[i].voltage, cells[i].temperature)]
        /\ m_packCurrent' = packCurrent
        /\ m_isChargingFlag' = IsChargingAfter(packCurrent, m_isChargingFlag)
        \* 2. updateSoC, updateSoH
        /\ m_accumulatedCharge_mAh' = acc
        /\ m_stateOfCharge_percent' = soc
        /\ m_wasFull' = WasFullAfter(soc, m_wasFull, m_wasEmpty)
        /\ m_wasEmpty' = WasEmptyAfter(soc, m_wasFull, m_wasEmpty)
        /\ m_chargeCycles' = cycles
        /\ m_stateOfHealth_percent' = soh
        \* evaluate sees the state of health of the previous update
        /\ evaluate(m_cells', packCurrent, m_stateOfHealth_percent)
        /\ faultHandled' = (m_currentState' = FAULT)
        \* what the claims observe of the tick
        /\ lastDeltaTime' = deltaTime_s
        /\ lastChargeChange' = charge_change_mAh(packCurrent, deltaTime_s)
        /\ seenFull' = (seenFull \/ soc >= SOC_FULL_THRESHOLD_PERCENT)
        /\ seenEmpty' = (seenEmpty \/ soc <= SOC_EMPTY_THRESHOLD_PERCENT)

\* BMS::update(deltaTime_s), one whole tick
update(cells, packCurrent, deltaTime_s) ==
    \E acc \in {AccumulatedChargeAfter(m_accumulatedCharge_mAh, packCurrent, deltaTime_s)} :
    \E soc \in {StateOfChargeOf(acc)} :
    \E cycles \in {ChargeCyclesAfter(m_chargeCycles, soc, m_wasFull, m_wasEmpty)} :
    \E soh \in {StateOfHealthOf(cycles)} :
        \* 1. read the sensors; a cell keeps its id
        /\ m_cells' = [i \in CellIds |->
                          BatteryCell(m_cells[i].id, cells[i].voltage, cells[i].temperature)]
        /\ m_packCurrent' = packCurrent
        /\ m_isChargingFlag' = IsChargingAfter(packCurrent, m_isChargingFlag)
        \* 2. updateSoC, updateSoH
        /\ m_accumulatedCharge_mAh' = acc
        /\ m_stateOfCharge_percent' = soc
        /\ m_wasFull' = WasFullAfter(soc, m_wasFull, m_wasEmpty)
        /\ m_wasEmpty' = WasEmptyAfter(soc, m_wasFull, m_wasEmpty)
        /\ m_chargeCycles' = cycles
        /\ m_stateOfHealth_percent' = soh
        \* 3. evaluate, 4. the switch on the state
        /\ evaluate(m_cells', packCurrent, soh)
        /\ faultHandled' = (m_currentState' = FAULT)
        \* what the claims observe of the tick
        /\ lastDeltaTime' = deltaTime_s
        /\ lastChargeChange' = charge_change_mAh(packCurrent, deltaTime_s)
        /\ seenFull' = (seenFull \/ soc >= SOC_FULL_THRESHOLD_PERCENT)
        /\ seenEmpty' = (seenEmpty \/ soc <= SOC_EMPTY_THRESHOLD_PERCENT)

\* the query API of BMS
getCurrentState == m_currentState
getSoC == m_stateOfCharge_percent
getSoH == m_stateOfHealth_percent
getPackCurrent == m_packCurrent
isCharging == m_isChargingFlag

\* main's loop: one update per iteration, the readings drawn from the sensors
Tick ==
    /\ pc = "idle"
    /\ ticks < MaxTicks
    /\ \E cells \in SensorPacks, packCurrent \in SensorCurrents, deltaTime_s \in DeltaTimes :
           update(cells, packCurrent, deltaTime_s)
    /\ ticks' = ticks + 1
    /\ pc' = pc

Next == Tick

Spec == Init /\ [][Next]_vars

\* ------------------------------------------------------------------------
\* The classifier on its own: SafetyManager::evaluate is public and is handed
\* whatever the BMS holds (BMS.cpp:162).  InitEval draws the held readings,
\* current and state of health from samples around every threshold, and the
\* state a previous evaluate left; EvaluateCall applies evaluate once.

Around(b) == (b - Margin)..(b + Margin)

VoltageSamples ==
    UNION { Around(b) : b \in { MIN_VOLTAGE_FAULT, MIN_VOLTAGE_CRITICAL, MIN_VOLTAGE_WARNING,
                                MIN_VOLTAGE_NORMAL, MAX_VOLTAGE_NORMAL, MAX_VOLTAGE_WARNING,
                                MAX_VOLTAGE_CRITICAL, MAX_VOLTAGE_FAULT } }
    \cup {50, 200, NominalVoltage, 460}

TemperatureSamples ==
    UNION { Around(b) : b \in { MIN_TEMP_FAULT, MIN_TEMP_CRITICAL, MIN_TEMP_WARNING,
                                MIN_TEMP_NORMAL, MAX_TEMP_NORMAL, MAX_TEMP_WARNING,
                                MAX_TEMP_CRITICAL, MAX_TEMP_FAULT } }
    \cup {-15, NominalTemperature, 65}

CurrentSamples ==
    UNION { Around(b) : b \in { IDLE_CURRENT_THRESHOLD_A, -IDLE_CURRENT_THRESHOLD_A,
                                MAX_CHARGE_CURRENT_NORMAL_A, MAX_CHARGE_CURRENT_WARNING_A,
                                MAX_CHARGE_CURRENT_CRITICAL_A,
                                -MAX_DISCHARGE_CURRENT_NORMAL_A,
                                -MAX_DISCHARGE_CURRENT_WARNING_A,
                                -MAX_DISCHARGE_CURRENT_CRITICAL_A } }
    \cup {0, 20, 200, -440, -1000}

SoHSamples ==
    UNION { Around(b) : b \in { SOH_THRESHOLD_CRITICAL, SOH_THRESHOLD_WARNING } }
    \cup {0, 2000}

\* one reading per band: Normal, Warning (2.90 V), Critical (55 C), Fault (0.90 V)
BandReadings ==
    { <<NominalVoltage, NominalTemperature>>, <<290, NominalTemperature>>,
      <<NominalVoltage, 55>>, <<90, NominalTemperature>> }

\* the readings the cells around a probed cell hold
BackgroundReadings ==
    { <<NominalVoltage, NominalTemperature>>, <<290, NominalTemperature>>,
      <<NominalVoltage, 55>> }

\* the readings of a probed cell: every voltage sample, every temperature sample
ProbeReadings ==
    { <<v, NominalTemperature>> : v \in VoltageSamples }
    \cup { <<NominalVoltage, t>> : t \in TemperatureSamples }

Pack(readings) == [i \in CellIds |-> BatteryCell(i, readings[i][1], readings[i][2])]

\* one probed cell in any slot among background cells
ProbePacks ==
    { Pack([bg EXCEPT ![k] = r]) :
          k \in CellIds, r \in ProbeReadings, bg \in [CellIds -> BackgroundReadings] }

\* every slot in any band
BandPacks == { Pack(rs) : rs \in [CellIds -> BandReadings] }

\* pack current and state of health, one per band: 0 A, 2.5 A, 3.5 A; 100, 70, 50 %
BandCurrents == {0, 50, 70}
BandSoH == {2000, 1400, 1000}

\* beyond every band at once: +10 A and -50 A on a pack at 0 % health
ExtremeCurrents == {200, -1000}
ExtremeSoH == {0}

\* what an earlier evaluate left in m_currentState: the constructor's NORMAL, or FAULT
PreviousStates == {NORMAL, FAULT}

EvalInputs ==
    (ProbePacks \X BandCurrents \X BandSoH)
    \cup (BandPacks \X CurrentSamples \X BandSoH)
    \cup (BandPacks \X BandCurrents \X SoHSamples)
    \cup (BandPacks \X ExtremeCurrents \X ExtremeSoH)

InitEval ==
    /\ \E inp \in EvalInputs :
           /\ m_cells = inp[1]
           /\ m_packCurrent = inp[2]
           /\ m_stateOfHealth_percent = inp[3]
           /\ m_chargeCycles = 2000 - inp[3]
    /\ m_currentState \in PreviousStates
    /\ m_accumulatedCharge_mAh = NOMINAL_CAPACITY_MAH \div 2
    /\ m_stateOfCharge_percent = 50 * 108000
    /\ m_wasFull = FALSE
    /\ m_wasEmpty = FALSE
    /\ m_isChargingFlag = FALSE
    /\ transition = <<>>
    /\ faultHandled = FALSE
    /\ ticks = 0
    /\ pc = "call"
    /\ lastDeltaTime = 0
    /\ lastChargeChange = 0
    /\ seenFull = FALSE
    /\ seenEmpty = FALSE

\* m_safetyManager.evaluate(m_cells, m_packCurrent, m_stateOfHealth_percent)
EvaluateCall ==
    /\ pc = "call"
    /\ evaluate(m_cells, m_packCurrent, m_stateOfHealth_percent)
    /\ pc' = "done"
    /\ UNCHANGED <<m_cells, m_packCurrent, m_accumulatedCharge_mAh, m_stateOfCharge_percent,
                   m_stateOfHealth_percent, m_chargeCycles, m_wasFull, m_wasEmpty,
                   m_isChargingFlag, faultHandled, ticks,
                   lastDeltaTime, lastChargeChange, seenFull, seenEmpty>>

NextEval == EvaluateCall

SpecEval == InitEval /\ [][NextEval]_vars

\* ------------------------------------------------------------------------
\* The same lone call of evaluate on a pack one of whose readings is not a
\* finite number

NonFiniteValues == {NaN, PosInf, NegInf}

\* a cell with a non-finite voltage, or a non-finite temperature
NonFiniteReadings ==
    { <<v, NominalTemperature>> : v \in NonFiniteValues }
    \cup { <<NominalVoltage, t>> : t \in NonFiniteValues }

\* one such cell in any slot among background cells
NonFinitePacks ==
    { Pack([bg EXCEPT ![k] = r]) :
          k \in CellIds, r \in NonFiniteReadings, bg \in [CellIds -> BackgroundReadings] }

InitNonFinite ==
    /\ m_cells \in NonFinitePacks
    /\ m_packCurrent \in BandCurrents
    /\ m_stateOfHealth_percent \in BandSoH
    /\ m_chargeCycles = 2000 - m_stateOfHealth_percent
    /\ m_currentState \in PreviousStates
    /\ m_accumulatedCharge_mAh = NOMINAL_CAPACITY_MAH \div 2
    /\ m_stateOfCharge_percent = 50 * 108000
    /\ m_wasFull = FALSE
    /\ m_wasEmpty = FALSE
    /\ m_isChargingFlag = FALSE
    /\ transition = <<>>
    /\ faultHandled = FALSE
    /\ ticks = 0
    /\ pc = "call"
    /\ lastDeltaTime = 0
    /\ lastChargeChange = 0
    /\ seenFull = FALSE
    /\ seenEmpty = FALSE

SpecNonFinite == InitNonFinite /\ [][NextEval]_vars

\* ------------------------------------------------------------------------
\* The loop of main on a pack that has aged: the states updateSoH leaves when
\* the pack idles at 100 % after its n-th half-cycle (the latches were cleared
\* by the count, the idle tick at 100 % latched m_wasFull again)

\* half-cycles counted so far: 200 cycles (SoH exactly 80 %), 1000 cycles (SoH 0 %)
AgedCycles == {400, 2000}

InitAged ==
    /\ m_cells = [i \in CellIds |-> BatteryCell(i, NominalVoltage, NominalTemperature)]
    /\ m_packCurrent = 0
    /\ m_accumulatedCharge_mAh = NOMINAL_CAPACITY_MAH
    /\ m_stateOfCharge_percent = StateOfChargeOf(NOMINAL_CAPACITY_MAH)
    /\ m_chargeCycles \in AgedCycles
    /\ m_stateOfHealth_percent = StateOfHealthOf(m_chargeCycles)
    /\ m_wasFull = TRUE
    /\ m_wasEmpty = FALSE
    /\ m_isChargingFlag = TRUE
    /\ m_currentState = ProposedState(m_cells, m_packCurrent, m_stateOfHealth_percent)
    /\ transition = <<>>
    /\ faultHandled = FALSE
    /\ ticks = 0
    /\ pc = "idle"
    /\ lastDeltaTime = 1
    /\ lastChargeChange = 0
    /\ seenFull = TRUE
    /\ seenEmpty = TRUE

SpecAged == InitAged /\ [][Next]_vars


\* ------------------------------------------------------------------------
\* What the claims speak of

\* the lone evaluate has returned
Evaluated == pc = "done"

\* an update has completed
Ticked == pc = "idle" /\ ticks > 0

NoCellInFaultRange ==
    \A i \in CellIds :
        /\ m_cells[i].voltage >= MIN_VOLTAGE_FAULT /\ m_cells[i].voltage <= MAX_VOLTAGE_FAULT
        /\ m_cells[i].temperature >= MIN_TEMP_FAULT /\ m_cells[i].temperature <= MAX_TEMP_FAULT

VoltageInNormalLimits(i) ==
    m_cells[i].voltage >= MIN_VOLTAGE_NORMAL /\ m_cells[i].voltage <= MAX_VOLTAGE_NORMAL

TemperatureInNormalLimits(i) ==
    m_cells[i].temperature >= MIN_TEMP_NORMAL /\ m_cells[i].temperature <= MAX_TEMP_NORMAL

AllCellsInNormalLimits ==
    \A i \in CellIds : VoltageInNormalLimits(i) /\ TemperatureInNormalLimits(i)

CurrentIdle ==
    m_packCurrent <= IDLE_CURRENT_THRESHOLD_A /\ m_packCurrent >= -IDLE_CURRENT_THRESHOLD_A

CurrentInNormalLimits ==
    \/ CurrentIdle
    \/ (m_packCurrent > 0 /\ m_packCurrent <= MAX_CHARGE_CURRENT_NORMAL_A)
    \/ (m_packCurrent < 0 /\ m_packCurrent >= -MAX_DISCHARGE_CURRENT_NORMAL_A)

SoHInNormalLimits == m_stateOfHealth_percent >= SOH_THRESHOLD_WARNING

\* every signal but the voltage of cell k is in its normal band
AllNormalButVoltageOf(k) ==
    /\ \A i \in CellIds \ {k} : VoltageInNormalLimits(i)
    /\ \A i \in CellIds : TemperatureInNormalLimits(i)
    /\ CurrentInNormalLimits
    /\ SoHInNormalLimits

\* ------------------------------------------------------------------------
\* C1: after any tick, a NORMAL state means every parameter is within its
\* normal limits: every cell voltage in [3.00, 4.20] V, every cell temperature
\* in [0, 45] C, the pack current idle or within the normal band of its
\* direction, and SoH >= 80 %.
C1_NormalMeansAllWithinNormalLimits ==
    (Ticked /\ m_currentState = NORMAL) =>
        (AllCellsInNormalLimits /\ CurrentInNormalLimits /\ SoHInNormalLimits)

\* ------------------------------------------------------------------------
\* C2: one cell with voltage < 1.00 V or > 4.80 V, or temperature < -20 C or
\* > 70 C, makes evaluate yield FAULT, whatever its slot, the other cells, the
\* pack current and SoH.
C2_AnyCellFaultYieldsFault ==
    (Evaluated /\ ~NoCellInFaultRange) => m_currentState = FAULT

\* the last slot alone holds a fault voltage while the current and SoH are critical
C2_Witness ==
    /\ Evaluated
    /\ m_cells[NUM_CELLS - 1].voltage < MIN_VOLTAGE_FAULT
    /\ \A i \in CellIds \ {NUM_CELLS - 1} : m_cells[i].voltage >= MIN_VOLTAGE_FAULT
    /\ \E i \in CellIds : m_cells[i].temperature > MAX_TEMP_WARNING
    /\ m_packCurrent > MAX_CHARGE_CURRENT_WARNING_A
    /\ m_stateOfHealth_percent < SOH_THRESHOLD_CRITICAL
    /\ m_currentState = FAULT

\* ------------------------------------------------------------------------
\* C3: with every cell voltage in [1.00, 4.80] V and every cell temperature in
\* [-20, 70] C the tier is never FAULT, for any pack current and any SoH.
C3_OnlyCellsProduceFault ==
    (Evaluated /\ NoCellInFaultRange) => m_currentState # FAULT

\* a 50 A discharge at SoH 0 % with no cell in a fault range
C3_Witness ==
    /\ Evaluated
    /\ NoCellInFaultRange
    /\ m_packCurrent < -MAX_DISCHARGE_CURRENT_CRITICAL_A
    /\ m_stateOfHealth_percent = 0
    /\ m_currentState # FAULT

\* ------------------------------------------------------------------------
\* C4: with every other signal in its normal band, one cell voltage v gives
\* NORMAL for v in [3.00, 4.20], WARNING for v in [2.80, 3.00) or (4.20, 4.30],
\* CRITICAL for v in [2.50, 2.80) or (4.30, 4.40], FAULT for v < 1.00 or
\* v > 4.80; a boundary value belongs to the lower-severity side.
C4_SingleVoltageBands ==
    Evaluated =>
        \A k \in CellIds :
            AllNormalButVoltageOf(k) =>
                LET v == m_cells[k].voltage
                IN  /\ (v >= 300 /\ v <= 420) => m_currentState = NORMAL
                    /\ ((v >= 280 /\ v < 300) \/ (v > 420 /\ v <= 430))
                           => m_currentState = WARNING
                    /\ ((v >= 250 /\ v < 280) \/ (v > 430 /\ v <= 440))
                           => m_currentState = CRITICAL
                    /\ (v < 100 \/ v > 480) => m_currentState = FAULT

\* exactly 4.30 V in one cell, all else normal: WARNING
C4_Witness ==
    /\ Evaluated
    /\ \E k \in CellIds : AllNormalButVoltageOf(k) /\ m_cells[k].voltage = 430
    /\ m_currentState = WARNING

\* ------------------------------------------------------------------------
\* C5: the voltage bands leave no gap: when no cell is in a fault range, any
\* cell voltage in [1.00, 2.80) or in (4.30, 4.80] yields CRITICAL.
C5_VoltageCriticalReachesFaultLimits ==
    ( /\ Evaluated
      /\ NoCellInFaultRange
      /\ \E i \in CellIds :
             \/ (m_cells[i].voltage >= 100 /\ m_cells[i].voltage < 280)
             \/ (m_cells[i].voltage > 430 /\ m_cells[i].voltage <= 480) )
    => m_currentState = CRITICAL

\* ------------------------------------------------------------------------
\* C6: the temperature bands leave no gap: when no cell is in a fault range,
\* a cell temperature in [-20, -5) or (50, 70] C yields CRITICAL, one in
\* [-5, 0) or (45, 50] at least WARNING, and one in [0, 45] does not raise the
\* tier.
C6_TemperatureBandsGapFree ==
    (Evaluated /\ NoCellInFaultRange) =>
        /\ (\E i \in CellIds :
               \/ (m_cells[i].temperature >= -20 /\ m_cells[i].temperature < -5)
               \/ (m_cells[i].temperature > 50 /\ m_cells[i].temperature <= 70))
           => m_currentState = CRITICAL
        /\ (\E i \in CellIds :
               \/ (m_cells[i].temperature >= -5 /\ m_cells[i].temperature < 0)
               \/ (m_cells[i].temperature > 45 /\ m_cells[i].temperature <= 50))
           => m_currentState >= WARNING
        /\ ( /\ \A i \in CellIds : VoltageInNormalLimits(i) /\ TemperatureInNormalLimits(i)
             /\ CurrentInNormalLimits
             /\ SoHInNormalLimits )
           => m_currentState = NORMAL

\* ------------------------------------------------------------------------
\* C7: a discharge current of magnitude > 20 A or a charge current > 4 A, with
\* all cells normal and SoH = 100 %, classifies CRITICAL.
C7_CurrentBeyondCriticalMaxIsCritical ==
    ( /\ Evaluated
      /\ AllCellsInNormalLimits
      /\ m_stateOfHealth_percent = 2000
      /\ \/ m_packCurrent > MAX_CHARGE_CURRENT_CRITICAL_A
         \/ m_packCurrent < -MAX_DISCHARGE_CURRENT_CRITICAL_A )
    => m_currentState = CRITICAL

\* ------------------------------------------------------------------------
\* C8: an idle pack current (|I| <= 0.05 A, the two ends included) is never a
\* source of WARNING or CRITICAL: with every cell in its normal voltage and
\* temperature band and SoH >= 80 % the tier is NORMAL.
C8_IdleCurrentIsNormal ==
    (Evaluated /\ CurrentIdle /\ AllCellsInNormalLimits /\ SoHInNormalLimits)
        => m_currentState = NORMAL

\* exactly -0.05 A, after a state that was not NORMAL
C8_Witness ==
    /\ Evaluated
    /\ m_packCurrent = -IDLE_CURRENT_THRESHOLD_A
    /\ AllCellsInNormalLimits
    /\ SoHInNormalLimits
    /\ transition # <<>>
    /\ m_currentState = NORMAL

\* ------------------------------------------------------------------------
\* C9: with no cell in a fault range, SoH < 60 % yields CRITICAL; SoH in
\* [60, 80) yields at least WARNING, and exactly WARNING when all other signals
\* are normal; SoH >= 80 % never raises the tier: the tier is the one the same
\* readings get at SoH 100 %.
C9_SoHBands ==
    (Evaluated /\ NoCellInFaultRange) =>
        /\ m_stateOfHealth_percent < 1200 => m_currentState = CRITICAL
        /\ (m_stateOfHealth_percent >= 1200 /\ m_stateOfHealth_percent < 1600)
               => /\ m_currentState >= WARNING
                  /\ (AllCellsInNormalLimits /\ CurrentInNormalLimits)
                         => m_currentState = WARNING
        /\ m_stateOfHealth_percent >= 1600
               => /\ m_currentState = ProposedState(m_cells, m_packCurrent, 2000)
                  /\ (AllCellsInNormalLimits /\ CurrentInNormalLimits)
                         => m_currentState = NORMAL

\* exactly 60 %, all else normal: WARNING
C9_Witness ==
    /\ Evaluated
    /\ m_stateOfHealth_percent = 1200
    /\ AllCellsInNormalLimits
    /\ CurrentInNormalLimits
    /\ m_currentState = WARNING

\* ------------------------------------------------------------------------
\* The tier of one signal: the highest band whose predicate holds for it,
\* NORMAL when none does.
VoltageTier(v) ==
    IF isVoltageFault(v) THEN FAULT
    ELSE IF isVoltageCritical(v) THEN CRITICAL
    ELSE IF isVoltageWarning(v) THEN WARNING
    ELSE NORMAL

TemperatureTier(t) ==
    IF isTemperatureFault(t) THEN FAULT
    ELSE IF isTemperatureCritical(t) THEN CRITICAL
    ELSE IF isTemperatureWarning(t) THEN WARNING
    ELSE NORMAL

CurrentTier(c) ==
    IF isCurrentCritical(c) THEN CRITICAL
    ELSE IF isCurrentWarning(c) THEN WARNING
    ELSE NORMAL

SoHTier(h) ==
    IF isSoHCritical(h) THEN CRITICAL
    ELSE IF isSoHWarning(h) THEN WARNING
    ELSE NORMAL

SignalTiers ==
    { VoltageTier(m_cells[i].voltage) : i \in CellIds }
    \cup { TemperatureTier(m_cells[i].temperature) : i \in CellIds }
    \cup { CurrentTier(m_packCurrent), SoHTier(m_stateOfHealth_percent) }

MaxTier(S) == CHOOSE t \in S : \A u \in S : u <= t

\* every order of the slots
CellOrders == Permutations(CellIds)

\* the cells in another order of the slots
Reordered(perm) == [i \in CellIds |-> m_cells[perm[i]]]

\* C10: the tier evaluate computes is the maximum, in the order NORMAL <
\* WARNING < CRITICAL < FAULT, of the tiers of every cell's voltage, every
\* cell's temperature, the pack current and SoH; it is the same for every
\* order of the cells.
C10_TierIsMaxOfSignalTiers ==
    Evaluated =>
        /\ m_currentState = MaxTier(SignalTiers)
        /\ \A perm \in CellOrders : \A cells \in {Reordered(perm)} :
               ProposedState(cells, m_packCurrent, m_stateOfHealth_percent) = m_currentState

\* a warning-level cell in the first slot, a critical-level one in the last:
\* CRITICAL
C10_Witness ==
    /\ Evaluated
    /\ VoltageTier(m_cells[0].voltage) = WARNING
    /\ VoltageTier(m_cells[NUM_CELLS - 1].voltage) = CRITICAL
    /\ CurrentTier(m_packCurrent) = NORMAL
    /\ SoHTier(m_stateOfHealth_percent) = NORMAL
    /\ m_currentState = CRITICAL

\* ------------------------------------------------------------------------
\* the sum updateSoC forms before it clamps
UnclampedCharge(acc, change) == acc + change

\* C11: in every reachable state, initially and after any sequence of updates
\* with any current and any elapsed time (negative and very large ones too),
\* the state of charge is within [0, 100] % and the state of health is within
\* [0, 100] %.
C11_SoCAndSoHWithinPercentRange ==
    /\ 0 <= m_stateOfCharge_percent
    /\ m_stateOfCharge_percent <= 100 * 108000
    /\ 0 <= m_stateOfHealth_percent
    /\ m_stateOfHealth_percent <= 2000

\* a half-cycle counted past 1000 cycles by a 50 A discharge over ten hours:
\* SoH stays at 0 %, SoC at 0 %
C11_Witness ==
    /\ Ticked
    /\ m_chargeCycles > 2000
    /\ m_stateOfHealth_percent = 0
    /\ lastDeltaTime = 36000
    /\ lastChargeChange < -NOMINAL_CAPACITY_MAH
    /\ m_stateOfCharge_percent = 0

\* ------------------------------------------------------------------------
\* C12: in every reachable state the state of charge is accumulatedCharge /
\* nominalCapacity x 100 (1500 mAh and 50 % initially); no update leaves the
\* two out of step.
C12_SoCFollowsAccumulatedCharge ==
    m_stateOfCharge_percent * (NOMINAL_CAPACITY_MAH \div 108000) = m_accumulatedCharge_mAh * 100

\* an update left a charge that is no whole percent of the capacity
C12_Witness ==
    /\ Ticked
    /\ (m_accumulatedCharge_mAh * 100) % NOMINAL_CAPACITY_MAH # 0
    /\ m_stateOfCharge_percent > 50 * 108000

\* ------------------------------------------------------------------------
\* C13: accumulatedCharge stays within [0, 3000 mAh]; an update whose charge
\* delta would take it above 3000 mAh leaves it at exactly 3000 mAh, one that
\* would take it below 0 leaves it at exactly 0, any other leaves the sum.
C13_AccumulatedChargeSaturates ==
    [][ /\ 0 <= m_accumulatedCharge_mAh' /\ m_accumulatedCharge_mAh' <= NOMINAL_CAPACITY_MAH
        /\ \A sum \in {UnclampedCharge(m_accumulatedCharge_mAh, lastChargeChange')} :
              /\ sum > NOMINAL_CAPACITY_MAH => m_accumulatedCharge_mAh' = NOMINAL_CAPACITY_MAH
              /\ sum < 0 => m_accumulatedCharge_mAh' = 0
              /\ (0 <= sum /\ sum <= NOMINAL_CAPACITY_MAH) => m_accumulatedCharge_mAh' = sum
      ]_vars

\* a discharge of more than the whole capacity in one update leaves 0 mAh
C13_Witness ==
    /\ Ticked
    /\ lastChargeChange < -NOMINAL_CAPACITY_MAH
    /\ m_accumulatedCharge_mAh = 0

\* ------------------------------------------------------------------------
\* C14: the charge delta of an update is current x dt / 3600, scaled by the
\* 0.98 efficiency exactly when packCurrent > 0.05 A; at exactly 0.05 A, in
\* the idle band and for every discharging current it is unscaled.  (One unit
\* of current over one second is CHARGE_EFFICIENCY_DEN units of charge.)
C14_EfficiencyOnlyAboveIdle ==
    Ticked =>
        lastChargeChange =
            IF m_packCurrent > IDLE_CURRENT_THRESHOLD_A
            THEN m_packCurrent * lastDeltaTime * CHARGE_EFFICIENCY_NUM
            ELSE m_packCurrent * lastDeltaTime * CHARGE_EFFICIENCY_DEN

\* an hour at exactly 0.05 A adds the whole 50 mAh
C14_Witness ==
    /\ Ticked
    /\ m_packCurrent = IDLE_CURRENT_THRESHOLD_A
    /\ lastDeltaTime = 3600
    /\ lastChargeChange = 50 * 3600
    /\ m_accumulatedCharge_mAh = NOMINAL_CAPACITY_MAH \div 2 + 50 * 3600

\* ------------------------------------------------------------------------
\* this update's state of charge is at or above the full threshold
NowFull == m_stateOfCharge_percent' >= SOC_FULL_THRESHOLD_PERCENT

\* this update's state of charge is at or below the empty threshold
NowEmpty == m_stateOfCharge_percent' <= SOC_EMPTY_THRESHOLD_PERCENT

\* this update counted a half-cycle and cleared both latches
CountsHalfCycle ==
    /\ m_chargeCycles' = m_chargeCycles + 1
    /\ ~m_wasFull'
    /\ ~m_wasEmpty'

\* C15: an excursion that first reaches >= 98 % (latching wasFull) and later
\* reaches <= 10 % adds 0.5 to chargeCycles exactly once, in the update that
\* sets the second latch, and leaves both latches false; whatever state of
\* charge the next update sees, the excursion is not counted again.
C15_FullThenEmptyCountsOnce ==
    [][ /\ (NowFull /\ ~m_wasEmpty) =>
              (m_wasFull' /\ ~m_wasEmpty' /\ m_chargeCycles' = m_chargeCycles)
        /\ (m_wasFull /\ ~NowEmpty) =>
              (m_wasFull' /\ m_chargeCycles' = m_chargeCycles)
        /\ (m_wasFull /\ NowEmpty) => CountsHalfCycle
        /\ (~m_wasFull /\ ~m_wasEmpty) => m_chargeCycles' = m_chargeCycles
      ]_vars

\* full, then empty (the count), then an idle update at the same charge: one
\* half-cycle, wasEmpty latched anew
C15_Witness ==
    /\ Ticked
    /\ ticks = 3
    /\ m_chargeCycles = 1
    /\ m_stateOfCharge_percent <= SOC_EMPTY_THRESHOLD_PERCENT
    /\ lastChargeChange = 0
    /\ m_wasEmpty
    /\ ~m_wasFull

\* ------------------------------------------------------------------------
\* C16: while the state of charge has never reached <= 10 %, chargeCycles
\* stays 0 and SoH stays 100 %, however many updates end at or above 98 %;
\* likewise while it has never reached >= 98 %.
C16_OneLatchNeverCounts ==
    (~seenEmpty \/ ~seenFull) => (m_chargeCycles = 0 /\ m_stateOfHealth_percent = 2000)

\* three updates, the last one charging at 100 %, none ever at or below 10 %
C16_Witness ==
    /\ Ticked
    /\ ticks = 3
    /\ seenFull
    /\ ~seenEmpty
    /\ m_wasFull
    /\ m_accumulatedCharge_mAh = NOMINAL_CAPACITY_MAH
    /\ lastChargeChange > 0
    /\ m_chargeCycles = 0

\* ------------------------------------------------------------------------
\* C17: the detection does not depend on which latch is set first: empty
\* then full counts 0.5 cycle as full then empty does, and updates with
\* 10 % < SoC < 98 % in between keep the latches and the count.
C17_LatchOrderIndependent ==
    [][ /\ (m_wasEmpty /\ NowFull) => CountsHalfCycle
        /\ (m_wasFull /\ NowEmpty) => CountsHalfCycle
        /\ (~NowFull /\ ~NowEmpty) =>
              /\ m_wasFull' = m_wasFull
              /\ m_wasEmpty' = m_wasEmpty
              /\ m_chargeCycles' = m_chargeCycles
      ]_vars

\* empty, then 81.7 %, then 2450 mAh more: the third update reaches 100 % and
\* counts the half-cycle
C17_Witness ==
    /\ Ticked
    /\ ticks = 3
    /\ lastChargeChange = 50 * 3600 * CHARGE_EFFICIENCY_NUM
    /\ m_stateOfCharge_percent >= SOC_FULL_THRESHOLD_PERCENT
    /\ m_chargeCycles = 1
    /\ ~m_wasFull
    /\ ~m_wasEmpty

\* ------------------------------------------------------------------------
\* 100 - chargeCycles x 0.1 in units of 0.05 %, clamped to [0, 100] %
ClampedHealth(halfCycles) ==
    IF halfCycles >= 2000 THEN 0
    ELSE IF halfCycles <= 0 THEN 2000
    ELSE 2000 - halfCycles

\* C18: over any sequence of updates chargeCycles never decreases and the
\* state of health never increases, and SoH = 100 - chargeCycles x 0.1
\* clamped to [0, 100].
C18_CyclesGrowHealthFalls ==
    /\ [](m_stateOfHealth_percent = ClampedHealth(m_chargeCycles))
    /\ [][ /\ m_chargeCycles' >= m_chargeCycles
           /\ m_stateOfHealth_percent' <= m_stateOfHealth_percent
         ]_vars

\* the 401st half-cycle takes SoH from 80 % to 79.95 %
C18_Witness ==
    /\ Ticked
    /\ m_chargeCycles = 401
    /\ m_stateOfHealth_percent = 1599
    /\ ~m_wasFull
    /\ ~m_wasEmpty

\* ------------------------------------------------------------------------
\* this update's current is in the idle band
NowIdle ==
    /\ m_packCurrent' <= IDLE_CURRENT_THRESHOLD_A
    /\ m_packCurrent' >= -IDLE_CURRENT_THRESHOLD_A

\* C19: the charging flag is sticky: an update with packCurrent > 0.05 A sets
\* it, one with packCurrent < -0.05 A clears it, one with an idle current
\* leaves it as the previous update left it; it is false before any update.
C19_ChargingFlagSticky ==
    /\ [](ticks = 0 => ~m_isChargingFlag)
    /\ [][ /\ m_packCurrent' > IDLE_CURRENT_THRESHOLD_A => m_isChargingFlag'
           /\ m_packCurrent' < -IDLE_CURRENT_THRESHOLD_A => ~m_isChargingFlag'
           /\ NowIdle => m_isChargingFlag' = m_isChargingFlag
         ]_vars

\* the flag still set after an update at exactly -0.05 A
C19_Witness ==
    /\ Ticked
    /\ ticks >= 2
    /\ m_packCurrent = -IDLE_CURRENT_THRESHOLD_A
    /\ m_isChargingFlag

\* ------------------------------------------------------------------------
\* C20: within one update the steps run read sensors, updateSoC, updateSoH,
\* evaluate, so nothing lags by an update: the state of charge comes from
\* this update's current, the latch and half-cycle decision from this
\* update's state of charge, and the tier from this update's readings and
\* from the SoH that already includes a half-cycle counted in this update.
C20_NothingLagsWithinAnUpdate ==
    [][ /\ m_stateOfCharge_percent' =
              StateOfChargeOf(AccumulatedChargeAfter(m_accumulatedCharge_mAh,
                                                     m_packCurrent', lastDeltaTime'))
        /\ (NowFull /\ ~m_wasEmpty) => m_wasFull'
        /\ (NowEmpty /\ ~m_wasFull) => m_wasEmpty'
        /\ ((NowEmpty /\ m_wasFull) \/ (NowFull /\ m_wasEmpty)) => CountsHalfCycle
        /\ m_stateOfHealth_percent' = ClampedHealth(m_chargeCycles')
        /\ m_currentState' =
              ProposedState(m_cells', m_packCurrent', m_stateOfHealth_percent')
      ]_vars

\* the first update of a pack at 200 cycles discharges it to 0 %: the
\* half-cycle it counts takes SoH below 80 % and the same update reports
\* WARNING
C20_Witness ==
    /\ Ticked
    /\ ticks = 1
    /\ m_stateOfCharge_percent = 0
    /\ m_chargeCycles = 401
    /\ isSoHWarning(m_stateOfHealth_percent)
    /\ AllCellsInNormalLimits
    /\ transition = <<NORMAL, WARNING>>
    /\ m_currentState = WARNING

\* ------------------------------------------------------------------------
\* C21: classification is stateless: the tier stored after evaluate is a
\* function of the cell readings, the pack current and SoH it was given, the
\* same whatever tier was stored before; no hysteresis, debounce or latching.
C21_TierIsStateless ==
    Evaluated =>
        m_currentState = ProposedState(m_cells, m_packCurrent, m_stateOfHealth_percent)

\* a stored FAULT gives way to the WARNING of a 2.90 V cell
C21_Witness ==
    /\ Evaluated
    /\ transition = <<FAULT, WARNING>>
    /\ \E i \in CellIds : isVoltageWarning(m_cells[i].voltage)
    /\ CurrentTier(m_packCurrent) = NORMAL
    /\ SoHTier(m_stateOfHealth_percent) = NORMAL
    /\ m_currentState = WARNING

\* ------------------------------------------------------------------------
\* C22: FAULT is not terminal: an update whose readings are all in their
\* normal bands, with normal current and SoH >= 80 %, ends NORMAL whatever
\* the tier before it, FAULT included; and from every tier every tier can be
\* the outcome of the next update (SoH permitting).
C22_NoTerminalTier ==
    /\ (Ticked /\ AllCellsInNormalLimits /\ CurrentInNormalLimits /\ SoHInNormalLimits)
           => m_currentState = NORMAL
    /\ (pc = "idle" /\ ticks < MaxTicks /\ SoHInNormalLimits)
           => \A tier \in SystemState : ENABLED (Tick /\ m_currentState' = tier)

\* an update took the tier from FAULT back to NORMAL
C22_Witness ==
    /\ Ticked
    /\ transition = <<FAULT, NORMAL>>
    /\ AllCellsInNormalLimits
    /\ CurrentInNormalLimits
    /\ SoHInNormalLimits
    /\ m_currentState = NORMAL

\* ------------------------------------------------------------------------
\* C23: before the first update the tier is NORMAL, accumulatedCharge is 50 %
\* of the nominal capacity (1500 mAh), SoC 50 %, SoH 100 %, chargeCycles 0,
\* wasFull, wasEmpty and isCharging false, packCurrent 0, and slot i of the
\* cells carries id i.
C23_StateBeforeFirstUpdate ==
    (pc = "idle" /\ ticks = 0) =>
        /\ m_currentState = NORMAL
        /\ m_accumulatedCharge_mAh * 2 = NOMINAL_CAPACITY_MAH
        /\ m_stateOfCharge_percent = 50 * 108000
        /\ m_stateOfHealth_percent = 2000
        /\ m_chargeCycles = 0
        /\ ~m_wasFull
        /\ ~m_wasEmpty
        /\ ~m_isChargingFlag
        /\ m_packCurrent = 0
        /\ \A i \in 0..3 : m_cells[i].id = i

\* the constructed pack, no update taken, nothing printed
C23_Witness ==
    /\ pc = "idle"
    /\ ticks = 0
    /\ transition = <<>>
    /\ ~faultHandled
    /\ DOMAIN m_cells = 0..3
    /\ m_accumulatedCharge_mAh = 1500 * 3600

\* ------------------------------------------------------------------------
\* C24: an update prints a transition (old tier -> new tier) only when the
\* tier it computes differs from the tier the previous update stored (NORMAL
\* before the first); an update that recomputes the same tier prints none,
\* and the old tier printed is the tier of the update just before.
C24_TransitionOnlyOnChange ==
    /\ [](ticks = 0 => (m_currentState = NORMAL /\ transition = <<>>))
    /\ [][ /\ m_currentState' # m_currentState =>
                 transition' = <<m_currentState, m_currentState'>>
           /\ m_currentState' = m_currentState => transition' = <<>>
         ]_vars

\* the second update goes from the FAULT of the first to CRITICAL
C24_Witness ==
    /\ Ticked
    /\ ticks = 2
    /\ transition = <<FAULT, CRITICAL>>
    /\ m_currentState = CRITICAL

\* ------------------------------------------------------------------------
\* C25: handleFault runs in an update exactly when the tier that update
\* computed is FAULT, in every such update and not only on entry into FAULT,
\* never when the tier is NORMAL, WARNING or CRITICAL; the loop keeps
\* updating after a FAULT.
C25_FaultHandledIffFault ==
    /\ Ticked => (faultHandled <=> m_currentState = FAULT)
    /\ (pc = "idle" /\ m_currentState = FAULT /\ ticks < MaxTicks) => ENABLED Tick

\* FAULT recomputed by a later update: no transition, handleFault again
C25_Witness ==
    /\ Ticked
    /\ ticks >= 2
    /\ m_currentState = FAULT
    /\ transition = <<>>
    /\ faultHandled

\* ------------------------------------------------------------------------
\* a reading that is NaN, +infinity or -infinity
NonFinite(x) == x \in NonFiniteValues

\* C26: every input maps to a defined tier, and a cell voltage or temperature
\* that is NaN, +infinity or -infinity yields FAULT; a NaN reading is never
\* classified NORMAL.
C26_NonFiniteReadingIsFault ==
    Evaluated =>
        /\ m_currentState \in SystemState
        /\ (\E i \in CellIds : NonFinite(m_cells[i].voltage) \/ NonFinite(m_cells[i].temperature))
               => m_currentState = FAULT

\* ------------------------------------------------------------------------
\* C27: between updates the query API agrees with the last completed update:
\* getCurrentState() is the classification of the cell readings, pack current
\* and SoH the BMS stores, getPackCurrent() is the current that update read
\* (the one its charge delta was computed from), and getSoC(), getSoH() and
\* isCharging() are what that update produced.
C27_QueriesReflectLastUpdate ==
    Ticked =>
        /\ getCurrentState = ProposedState(m_cells, getPackCurrent, getSoH)
        /\ lastChargeChange = charge_change_mAh(getPackCurrent, lastDeltaTime)
        /\ getSoC = StateOfChargeOf(m_accumulatedCharge_mAh)
        /\ getSoH = StateOfHealthOf(m_chargeCycles)
        /\ getPackCurrent > IDLE_CURRENT_THRESHOLD_A => isCharging
        /\ getPackCurrent < -IDLE_CURRENT_THRESHOLD_A => ~isCharging

\* a second update reads a 0.90 V cell while charging at 3.5 A
C27_Witness ==
    /\ Ticked
    /\ ticks = 2
    /\ getCurrentState = FAULT
    /\ getPackCurrent = 70
    /\ isCharging
    /\ getSoC = 100 * 108000
    /\ getSoH = SOH_THRESHOLD_WARNING

\* ------------------------------------------------------------------------
\* C28: when updateSoH has returned, wasFull and wasEmpty are never both
\* true: they are set together only inside updateSoH, which counts and
\* clears them.
C28_LatchesNeverBothSet ==
    ~(m_wasFull /\ m_wasEmpty)

\* the second update found both latches set, counted and cleared them
C28_Witness ==
    /\ Ticked
    /\ ticks = 2
    /\ seenFull
    /\ m_stateOfCharge_percent <= SOC_EMPTY_THRESHOLD_PERCENT
    /\ m_chargeCycles = 1
    /\ ~m_wasFull
    /\ ~m_wasEmpty

\* ------------------------------------------------------------------------
\* the update before this one ended in the full zone / in the empty zone
WasInFullZone == m_stateOfCharge_percent >= SOC_FULL_THRESHOLD_PERCENT
WasInEmptyZone == m_stateOfCharge_percent <= SOC_EMPTY_THRESHOLD_PERCENT

\* C29: chargeCycles changes by 0 or by +0.5 in an update; dwelling in one
\* zone never counts again; and every alternation between the full zone and
\* the empty zone counts a half-cycle (full -> empty -> full counts 1.0), in
\* particular an update that ends in one zone right after an update that
\* ended in the opposite zone.
C29_EveryAlternationCounts ==
    [][ /\ m_chargeCycles' \in {m_chargeCycles, m_chargeCycles + 1}
        /\ (WasInFullZone /\ NowFull) => m_chargeCycles' = m_chargeCycles
        /\ (WasInEmptyZone /\ NowEmpty) => m_chargeCycles' = m_chargeCycles
        /\ (WasInFullZone /\ NowEmpty) => m_chargeCycles' = m_chargeCycles + 1
        /\ (WasInEmptyZone /\ NowFull) => m_chargeCycles' = m_chargeCycles + 1
      ]_vars

\* ------------------------------------------------------------------------
\* how many of the predicates hold
BandCount(flags) == Cardinality({k \in DOMAIN flags : flags[k]})

\* C30: the band predicates of one metric are mutually exclusive: no voltage
\* satisfies more than one of isVoltageNormal/Warning/Critical/Fault, no
\* temperature more than one of the four temperature predicates, no current
\* more than one of isCurrentNormal/Warning/Critical, and every SoH satisfies
\* exactly one of isSoHNormal/Warning/Critical (of the values evaluate was
\* given).
C30_BandsMutuallyExclusive ==
    Evaluated =>
        /\ \A i \in CellIds :
              /\ BandCount(<<isVoltageNormal(m_cells[i].voltage),
                              isVoltageWarning(m_cells[i].voltage),
                              isVoltageCritical(m_cells[i].voltage),
                              isVoltageFault(m_cells[i].voltage)>>) <= 1
              /\ BandCount(<<isTemperatureNormal(m_cells[i].temperature),
                              isTemperatureWarning(m_cells[i].temperature),
                              isTemperatureCritical(m_cells[i].temperature),
                              isTemperatureFault(m_cells[i].temperature)>>) <= 1
        /\ BandCount(<<isCurrentNormal(m_packCurrent), isCurrentWarning(m_packCurrent),
                        isCurrentCritical(m_packCurrent)>>) <= 1
        /\ BandCount(<<isSoHNormal(m_stateOfHealth_percent), isSoHWarning(m_stateOfHealth_percent),
                        isSoHCritical(m_stateOfHealth_percent)>>) = 1

\* evaluate has classified a cell at exactly 2.80 V, the limit the warning
\* and the critical band share
C30_Witness ==
    /\ Evaluated
    /\ \E i \in CellIds :
          /\ m_cells[i].voltage = MIN_VOLTAGE_WARNING
          /\ isVoltageWarning(m_cells[i].voltage)
          /\ ~isVoltageCritical(m_cells[i].voltage)
    /\ m_currentState = WARNING

\* ------------------------------------------------------------------------
\* accumulatedCharge plus current x dt, unscaled, kept within [0, 3000 mAh]
CountedUnscaled(acc, packCurrent, deltaTime_s) ==
    LET sum == acc + packCurrent * deltaTime_s * CHARGE_EFFICIENCY_DEN
    IN  IF sum > NOMINAL_CAPACITY_MAH THEN NOMINAL_CAPACITY_MAH
        ELSE IF sum < 0 THEN 0
        ELSE sum

\* C31: for a positive elapsed time an update never decreases
\* accumulatedCharge when packCurrent > 0 and never increases it when
\* packCurrent < 0; a non-zero current inside the idle band (0 < |I| <=
\* 0.05 A) is still counted, unscaled, and a zero current leaves
\* accumulatedCharge and SoC unchanged.
C31_ChargeFollowsCurrentSign ==
    [][ lastDeltaTime' > 0 =>
          /\ m_packCurrent' > 0 => m_accumulatedCharge_mAh' >= m_accumulatedCharge_mAh
          /\ m_packCurrent' < 0 => m_accumulatedCharge_mAh' <= m_accumulatedCharge_mAh
          /\ (m_packCurrent' # 0 /\ NowIdle) =>
                m_accumulatedCharge_mAh' =
                    CountedUnscaled(m_accumulatedCharge_mAh, m_packCurrent', lastDeltaTime')
          /\ m_packCurrent' = 0 =>
                /\ m_accumulatedCharge_mAh' = m_accumulatedCharge_mAh
                /\ m_stateOfCharge_percent' = m_stateOfCharge_percent
      ]_vars

\* an hour at -0.05 A took 50 mAh off the 1500 mAh of the constructed pack
C31_Witness ==
    /\ Ticked
    /\ ticks = 1
    /\ m_packCurrent = -IDLE_CURRENT_THRESHOLD_A
    /\ lastDeltaTime = 3600
    /\ m_accumulatedCharge_mAh = (1500 - 50) * 3600
    /\ m_stateOfCharge_percent < 50 * 108000

=============================================================================
